---- MODULE Spec2Model ----
(***************************************************************************)
(* Model of uas_mood: the dataset pipeline of utils/dataset.py             *)
(* (PreloadDataset.load_to_ram, TrainDataset, TestDataset,                  *)
(* PatchSwapDataset, get_train_files, get_test_files) and the layer         *)
(* arithmetic of models/models.py (WideResNetAE).                           *)
(*                                                                         *)
(* Strings that the code searches or rewrites (paths, file names) are       *)
(* sequences of fragments whose concatenation is the string.  Fragments     *)
(* are cut so that every occurrence of a searched substring ("test",        *)
(* ".nii.gz", "_") is a whole fragment; a substring operation of Python is  *)
(* then the same operation on the fragment sequence.                        *)
(* Python indices are kept 0-based in values; sequences are 1-based.        *)
(***************************************************************************)
EXTENDS FiniteSets, Integers, Sequences, TLC

VARIABLES
    \* ---- dataset construction and indexing (utils/dataset.py, classes)
    cls,            \* the class being constructed
    files,          \* constructor argument: list of paths
    disk,           \* path -> number of slices process_scan yields for it
    data,           \* constructor argument of PatchSwapDataset
    cpu_count,      \* os.cpu_count()
    pc,             \* "new", "loading", "ready", "raised"
    exc,            \* the exception that ended the constructor, or "none"
    batches,        \* load_to_ram: the batches handed to the pool
    task,           \* per batch: "queued", "running", "done"
    opened,         \* per batch: how many paths its worker has opened
    results,        \* per batch: what load_batch returned
    finished,       \* batch numbers in the order the workers finished
    poolStarted,    \* a Pool was created
    filesRead,      \* paths the workers have opened
    res,            \* what load_to_ram returned
    attrs,          \* names of the attributes assigned on self
    samples, segmentations, n_slices, n_scans, dataAttr,
    ret,            \* the last __getitem__ call and what it produced
    \* ---- file discovery (utils/dataset.py, get_train_files/get_test_files)
    fn, root, body_region, listing, gpc, gexc, globCalls, all_files, gi,
    gfiles,
    \* ---- WideResNetAE (models/models.py)
    inp_size, widen_factor, batch, npc, net, li, x, nexc

dvars == <<cls, files, disk, data, cpu_count, pc, exc, batches, task,
           opened, results, finished, poolStarted, filesRead, res, attrs, samples,
           segmentations, n_slices, n_scans, dataAttr, ret>>
gvars == <<fn, root, body_region, listing, gpc, gexc, globCalls, all_files,
           gi, gfiles>>
nvars == <<inp_size, widen_factor, batch, npc, net, li, x, nexc>>
vars == <<dvars, gvars, nvars>>

----------------------------------------------------------------------------
(* Bounds of the model *)
MaxFiles == 3       \* longest list of files handed to a constructor
MaxSlices == 2      \* most slices a scan has after slice extraction
MaxCpus == 7        \* largest os.cpu_count()
MaxListing == 3     \* most entries in the globbed directory
MaxWiden == 3       \* largest widen_factor
MaxBatch == 2       \* largest batch dimension of a forward input

(* Program constants *)
CpusReserved == 4   \* num_cpus = os.cpu_count() - 4
img_size == 256     \* img_size argument used by the module's main

Regions == {"brain", "abdom"}

----------------------------------------------------------------------------
(* Generic helpers *)
RECURSIVE Flatten(_)
Flatten(ss) == IF ss = <<>> THEN <<>> ELSE Head(ss) \o Flatten(Tail(ss))

Range(s) == {s[i] : i \in DOMAIN s}

\* the subsequences of s: some elements dropped, the order kept
RECURSIVE SubSeqs(_)
SubSeqs(s) ==
    IF s = <<>> THEN {<<>>}
    ELSE LET r == SubSeqs(Tail(s)) IN r \cup {<<Head(s)>> \o t : t \in r}

Min2(a, b) == IF a < b THEN a ELSE b

----------------------------------------------------------------------------
(* Paths *)

\* os.path.join(root, body_region, folder) + "/" + name
Path(r, region, folder, name) == r \o <<"/", region, "/", folder, "/">> \o name

Roots == {<<"/", "data">>, <<"/", "test", "data">>}

\* file names of a train folder and of a test folder, in directory order
TrainNames == <<<<"00002", ".nii.gz">>, <<"00001", ".nii.gz">>,
                <<"00003", ".nii.gz">>, <<"00004", ".nii.gz">>,
                <<"00005", ".nii.gz">>>>
TestNames == <<<<"00002", "_", "a", ".nii.gz">>,
               <<"00001", "_", "test", ".nii.gz">>,
               <<"00003", "_", "b", ".nii.gz">>,
               <<"00004", "_", "c", ".nii.gz">>,
               <<"00005", "_", "d", ".nii.gz">>>>

\* str.replace(old, new) for a one-fragment old: every occurrence, left to
\* right
RECURSIVE Replace(_, _, _)
Replace(s, old, new) ==
    IF s = <<>> THEN <<>>
    ELSE IF Head(s) = old THEN new \o Replace(Tail(s), old, new)
    ELSE <<Head(s)>> \o Replace(Tail(s), old, new)

\* f.replace("test", "test_label/pixel")
SegPathAllOccurrences(f) == Replace(f, "test", <<"test_label", "/", "pixel">>)
SegPath(f) == SegPathAllOccurrences(f)

----------------------------------------------------------------------------
(* Missing helpers of uas_mood.utils.data_utils / artificial_anomalies *)

\* process_scan: the volume of f after slice extraction and resizing, as the
\* sequence of its slices (first axis)
process_scan(f) ==
    [k \in 1..disk[f] |-> [file |-> f, slice |-> k - 1,
                           shape |-> <<img_size, img_size>>]]

\* load_segmentation: the label volume read from f_seg
load_segmentation(f_seg) == [file |-> f_seg, kind |-> "segmentation"]

\* sample_complete_mask + patch_exchange: an image and a label of img1's shape
patch_exchange(img1, img2) ==
    <<[kind |-> "patchex", img1 |-> img1, img2 |-> img2, shape |-> img1.shape],
      [kind |-> "label", shape |-> img1.shape]>>

\* Tensor.unsqueeze(0)
unsqueeze0(t) == [t EXCEPT !.shape = <<1>> \o @]

----------------------------------------------------------------------------
(* PreloadDataset.load_to_ram *)

num_cpus == cpu_count - CpusReserved

\* np.array_split(ary, n): n sections, the first len % n of them one longer
DivPoint(total, n, i) == i * (total \div n) + Min2(i, total % n)
array_split(ary, n) ==
    [i \in 1..n |-> SubSeq(ary, DivPoint(Len(ary), n, i - 1) + 1,
                           DivPoint(Len(ary), n, i))]

\* batches = [list(p) for p in np.array_split(paths, num_cpus) if len(p) > 0]
NonEmpty(p) == Len(p) > 0
MakeBatches(paths, n) == SelectSeq(array_split(paths, n), NonEmpty)

\* load_batch of the three classes
train_load_batch(fs) == [i \in 1..Len(fs) |-> process_scan(fs[i])]
test_load_batch(fs) ==
    [samples |-> [i \in 1..Len(fs) |-> <<fs[i], process_scan(fs[i])>>],
     segmentations |->
        [i \in 1..Len(fs) |->
            <<SegPath(fs[i]), load_segmentation(SegPath(fs[i]))>>]]
load_batch(c, fs) ==
    IF c = "TestDataset" THEN test_load_batch(fs) ELSE train_load_batch(fs)

\* the paths load_batch opens, in the order it opens them: process_scan(f),
\* and in TestDataset load_segmentation(f_seg) after it, file by file
RECURSIVE BatchOpens(_, _)
BatchOpens(c, fs) ==
    IF fs = <<>> THEN <<>>
    ELSE (IF c = "TestDataset" THEN <<Head(fs), SegPath(Head(fs))>>
          ELSE <<Head(fs)>>)
         \o BatchOpens(c, Tail(fs))

\* results handed back in the order the workers finished
StarmapCompletionOrder(rs, order) == [i \in 1..Len(order) |-> rs[order[i]]]
\* pool.starmap: one result per task, in task order
StarmapResult(rs, order) == [i \in 1..Len(order) |-> rs[i]]

\* assert data in ["brain", "abdom"]  (PatchSwapDataset only)
AssertDataSkipped(c, d) == TRUE
AssertData(c, d) == c = "PatchSwapDataset" => d \in Regions

----------------------------------------------------------------------------
(* Idle values of the three groups of variables *)
NoRet == [call |-> "none", exc |-> "none", idx |-> 0, other_scan |-> 0,
          other_idx |-> 0, value |-> <<>>]

IdleD ==
    /\ cls = "none" /\ files = <<>> /\ disk = <<>> /\ data = "none"
    /\ cpu_count = 0 /\ pc = "idle" /\ exc = "none" /\ batches = <<>>
    /\ task = <<>> /\ opened = <<>> /\ results = <<>> /\ finished = <<>>
    /\ poolStarted = FALSE /\ filesRead = {} /\ res = <<>> /\ attrs = {}
    /\ samples = <<>> /\ segmentations = <<>> /\ n_slices = 0 /\ n_scans = 0
    /\ dataAttr = "unset" /\ ret = NoRet
IdleG ==
    /\ fn = "none" /\ root = <<>> /\ body_region = "none" /\ listing = <<>>
    /\ gpc = "idle" /\ gexc = "none" /\ globCalls = 0 /\ all_files = <<>>
    /\ gi = 0 /\ gfiles = <<>>
IdleN ==
    /\ inp_size = 0 /\ widen_factor = 0 /\ batch = 0 /\ npc = "idle"
    /\ net = <<>> /\ li = 0 /\ x = <<>> /\ nexc = "none"

----------------------------------------------------------------------------
(* Dataset construction: __init__ of TrainDataset, TestDataset and         *)
(* PatchSwapDataset, with load_to_ram and the worker pool                  *)

Classes == {"TrainDataset", "TestDataset", "PatchSwapDataset"}

\* the lists of files a constructor is given: at most MaxFiles distinct paths
FileLists(c, r) ==
    LET names == IF c = "TestDataset" THEN TestNames ELSE TrainNames
        folder == IF c = "TestDataset" THEN "test" ELSE "train"
        n == Min2(MaxFiles, Len(names))
    IN SubSeqs([i \in 1..n |-> Path(r, "brain", folder, names[i])])

InitD ==
    /\ cls \in Classes
    /\ data \in (IF cls = "PatchSwapDataset" THEN Regions \cup {"other"}
                 ELSE {"none"})
    /\ \E r \in (IF cls = "TestDataset" THEN Roots ELSE {<<"/", "data">>}) :
          files \in FileLists(cls, r)
    /\ disk \in [Range(files) -> 0..MaxSlices]
    /\ cpu_count \in CpusReserved..MaxCpus
    /\ pc = "new" /\ exc = "none" /\ batches = <<>> /\ task = <<>>
    /\ opened = <<>> /\ results = <<>> /\ finished = <<>> /\ poolStarted = FALSE
    /\ filesRead = {} /\ res = <<>> /\ attrs = {} /\ samples = <<>>
    /\ segmentations = <<>> /\ n_slices = 0 /\ n_scans = 0
    /\ dataAttr = "unset" /\ ret = NoRet
    /\ IdleG /\ IdleN

\* __init__ up to the blocking pool.starmap call of load_to_ram:
\* the assertion (PatchSwapDataset), num_cpus, the batches, the Pool
Construct ==
    /\ pc = "new"
    /\ IF ~AssertData(cls, data)
       THEN /\ pc' = "raised" /\ exc' = "AssertionError"
            /\ UNCHANGED <<batches, task, opened, results, poolStarted>>
       ELSE IF num_cpus <= 0
       THEN \* np.array_split: number sections must be larger than 0
            /\ pc' = "raised" /\ exc' = "ValueError"
            /\ UNCHANGED <<batches, task, opened, results, poolStarted>>
       ELSE /\ batches' = MakeBatches(files, num_cpus)
            /\ task' = [i \in 1..Len(batches') |-> "queued"]
            /\ opened' = [i \in 1..Len(batches') |-> 0]
            /\ results' = [i \in 1..Len(batches') |-> <<>>]
            /\ poolStarted' = TRUE
            /\ pc' = "loading" /\ exc' = "none"
    /\ UNCHANGED <<cls, files, disk, data, cpu_count, finished, filesRead,
                   res, attrs, samples, segmentations, n_slices, n_scans,
                   dataAttr, ret>>
    /\ UNCHANGED <<gvars, nvars>>

\* a pool worker takes the next queued task
WorkerStart(i) ==
    /\ pc = "loading"
    /\ task[i] = "queued"
    /\ \A j \in 1..(i - 1) : task[j] # "queued"
    /\ Cardinality({j \in DOMAIN task : task[j] = "running"}) < num_cpus
    /\ task' = [task EXCEPT ![i] = "running"]
    /\ UNCHANGED <<cls, files, disk, data, cpu_count, pc, exc, batches,
                   results, finished, poolStarted, filesRead, res, attrs,
                   samples, segmentations, n_slices, n_scans, dataAttr, ret>>
    /\ UNCHANGED opened
    /\ UNCHANGED <<gvars, nvars>>

\* a pool worker, inside load_batch, opens the next path of its batch
WorkerOpen(i) ==
    /\ pc = "loading"
    /\ task[i] = "running"
    /\ opened[i] < Len(BatchOpens(cls, batches[i]))
    /\ filesRead' = filesRead \cup {BatchOpens(cls, batches[i])[opened[i] + 1]}
    /\ opened' = [opened EXCEPT ![i] = @ + 1]
    /\ UNCHANGED <<cls, files, disk, data, cpu_count, pc, exc, batches, task,
                   results, finished, poolStarted, res, attrs, samples,
                   segmentations, n_slices, n_scans, dataAttr, ret>>
    /\ UNCHANGED <<gvars, nvars>>

\* a pool worker returns from load_batch
WorkerFinish(i) ==
    /\ pc = "loading"
    /\ task[i] = "running"
    /\ opened[i] = Len(BatchOpens(cls, batches[i]))
    /\ task' = [task EXCEPT ![i] = "done"]
    /\ results' = [results EXCEPT ![i] = load_batch(cls, batches[i])]
    /\ finished' = Append(finished, i)
    /\ UNCHANGED <<cls, files, disk, data, cpu_count, pc, exc, batches,
                   opened, poolStarted, filesRead, res, attrs, samples,
                   segmentations, n_slices, n_scans, dataAttr, ret>>
    /\ UNCHANGED <<gvars, nvars>>

\* samples = [s for r in res for s in r]
ScansOf(r) == Flatten(r)
\* a flattening that takes from every scan as many slices as the first has
SlicesOfFirstLength(scans) ==
    Flatten([i \in 1..Len(scans) |->
                SubSeq(scans[i], 1, Min2(Len(scans[i]), Len(scans[1])))])
\* self.samples = [sl for sample in samples for sl in sample]
SlicesOf(scans) == Flatten(scans)
\* [s for t in res for s in t["samples"]], likewise "segmentations"
TestSamplesOf(r) == Flatten([i \in 1..Len(r) |-> r[i].samples])
TestSegmentationsOf(r) == Flatten([i \in 1..Len(r) |-> r[i].segmentations])
\* self.n_slices = samples[0].shape[0]
NSlicesOf(scans) == Len(scans[1])

\* starmap returns; load_to_ram returns res; the rest of __init__ runs
FinishInit ==
    /\ pc = "loading"
    /\ \A i \in DOMAIN task : task[i] = "done"
    /\ res' = StarmapResult(results, finished)
    /\ CASE cls = "TrainDataset" ->
              /\ samples' = SlicesOf(ScansOf(res'))
              /\ attrs' = {"samples"}
              /\ pc' = "ready" /\ exc' = "none"
              /\ UNCHANGED <<segmentations, n_slices, n_scans, dataAttr>>
         [] cls = "TestDataset" ->
              /\ samples' = TestSamplesOf(res')
              /\ segmentations' = TestSegmentationsOf(res')
              /\ attrs' = {"samples", "segmentations"}
              /\ pc' = "ready" /\ exc' = "none"
              /\ UNCHANGED <<n_slices, n_scans, dataAttr>>
         [] cls = "PatchSwapDataset" ->
              IF ScansOf(res') = <<>>
              THEN \* samples[0] of an empty list
                   /\ pc' = "raised" /\ exc' = "IndexError"
                   /\ UNCHANGED <<samples, segmentations, n_slices, n_scans,
                                  dataAttr, attrs>>
              ELSE /\ n_slices' = NSlicesOf(ScansOf(res'))
                   /\ n_scans' = Len(ScansOf(res'))
                   /\ samples' = SlicesOf(ScansOf(res'))
                   /\ dataAttr' = data
                   /\ attrs' = {"n_slices", "n_scans", "samples", "data"}
                   /\ pc' = "ready" /\ exc' = "none"
                   /\ UNCHANGED segmentations
    /\ UNCHANGED <<cls, files, disk, data, cpu_count, batches, task, results,
                   finished, poolStarted, filesRead, ret>>
    /\ UNCHANGED opened
    /\ UNCHANGED <<gvars, nvars>>

\* TrainDataset.__getitem__(idx)
TrainGetItem(idx) ==
    /\ pc = "ready" /\ cls = "TrainDataset" /\ ret.call = "none"
    /\ ret' = [call |-> "TrainDataset", exc |-> "none", idx |-> idx,
               other_scan |-> 0, other_idx |-> 0,
               value |-> unsqueeze0(samples[idx + 1])]
    /\ UNCHANGED <<cls, files, disk, data, cpu_count, pc, exc, batches, task,
                   results, finished, poolStarted, filesRead, res, attrs,
                   samples, segmentations, n_slices, n_scans, dataAttr>>
    /\ UNCHANGED opened
    /\ UNCHANGED <<gvars, nvars>>

\* TestDataset.__getitem__(idx)
TestGetItem(idx) ==
    /\ pc = "ready" /\ cls = "TestDataset" /\ ret.call = "none"
    /\ ret' = [call |-> "TestDataset", exc |-> "none", idx |-> idx,
               other_scan |-> 0, other_idx |-> 0,
               value |-> <<samples[idx + 1], segmentations[idx + 1]>>]
    /\ UNCHANGED <<cls, files, disk, data, cpu_count, pc, exc, batches, task,
                   results, finished, poolStarted, filesRead, res, attrs,
                   samples, segmentations, n_slices, n_scans, dataAttr>>
    /\ UNCHANGED opened
    /\ UNCHANGED <<gvars, nvars>>

\* other_idx = other_scan * self.n_slices + i_slice
OtherIdx(idx, other_scan) == other_scan * n_slices + (idx % n_slices)

\* PatchSwapDataset.__getitem__(idx); other_scan is random.randint's draw
PatchSwapGetItem(idx, other_scan) ==
    /\ pc = "ready" /\ cls = "PatchSwapDataset" /\ ret.call = "none"
    /\ ret' =
         IF n_slices = 0
         THEN \* idx % self.n_slices
              [call |-> "PatchSwapDataset", exc |-> "ZeroDivisionError",
               idx |-> idx, other_scan |-> 0, other_idx |-> 0, value |-> <<>>]
         ELSE IF OtherIdx(idx, other_scan) >= Len(samples)
         THEN \* self.samples[other_idx]
              [call |-> "PatchSwapDataset", exc |-> "IndexError",
               idx |-> idx, other_scan |-> other_scan,
               other_idx |-> OtherIdx(idx, other_scan), value |-> <<>>]
         ELSE LET pl == patch_exchange(samples[idx + 1],
                                       samples[OtherIdx(idx, other_scan) + 1])
              IN [call |-> "PatchSwapDataset", exc |-> "none", idx |-> idx,
                  other_scan |-> other_scan,
                  other_idx |-> OtherIdx(idx, other_scan),
                  value |-> <<unsqueeze0(pl[1]), unsqueeze0(pl[2])>>]
    /\ UNCHANGED <<cls, files, disk, data, cpu_count, pc, exc, batches, task,
                   results, finished, poolStarted, filesRead, res, attrs,
                   samples, segmentations, n_slices, n_scans, dataAttr>>
    /\ UNCHANGED opened
    /\ UNCHANGED <<gvars, nvars>>

\* the caller takes what __getitem__ returned (or raised)
Return ==
    /\ pc = "ready" /\ ret.call # "none"
    /\ ret' = NoRet
    /\ UNCHANGED <<cls, files, disk, data, cpu_count, pc, exc, batches, task,
                   results, finished, poolStarted, filesRead, res, attrs,
                   samples, segmentations, n_slices, n_scans, dataAttr>>
    /\ UNCHANGED opened
    /\ UNCHANGED <<gvars, nvars>>

NextD ==
    \/ Construct
    \/ \E i \in DOMAIN task : WorkerStart(i)
    \/ \E i \in DOMAIN task : WorkerOpen(i)
    \/ \E i \in DOMAIN task : WorkerFinish(i)
    \/ FinishInit
    \/ \E idx \in 0..(Len(samples) - 1) : TrainGetItem(idx)
    \/ \E idx \in 0..(Len(samples) - 1) : TestGetItem(idx)
    \/ \E idx \in 0..(Len(samples) - 1) :
          \E other_scan \in 0..(n_scans - 1) : PatchSwapGetItem(idx, other_scan)
    \/ Return

----------------------------------------------------------------------------
(* File discovery: get_train_files and get_test_files *)

\* fragments of exactly five characters (what "?????" can match)
FiveChars == {"00001", "00002", "00003", "00004", "00005", "00006", "00007"}

\* entries a train or test folder may hold
DirNames ==
    {<<"00001", "_", "a", ".nii.gz">>,
     <<"00001", "_", "a", "_", "segmentation", ".nii.gz">>,
     <<"00002", "_", "segmentation", ".nii.gz">>,
     <<"00003", "_", "segmentation", "_", "b", ".nii.gz">>,
     <<"00004", ".nii.gz">>,
     <<"0005", "_", "c", ".nii.gz">>,
     <<"00006", "_", "d", ".nii">>,
     <<"00007", "_", ".nii.gz">>}

\* the directory listings: distinct entries, in the order the OS gives them
Listings ==
    UNION {{l \in [1..k -> DirNames] : \A i, j \in 1..k : i # j => l[i] # l[j]}
           : k \in 0..MaxListing}

\* fnmatch of "?????.nii.gz" and of "?????_*.nii.gz" against an entry
MatchTrain(n) == Len(n) = 2 /\ n[1] \in FiveChars /\ n[2] = ".nii.gz"
MatchTest(n) ==
    Len(n) >= 3 /\ n[1] \in FiveChars /\ n[2] = "_" /\ n[Len(n)] = ".nii.gz"

\* glob(f"{os.path.join(root, body_region, folder)}/<pattern>"): the matching
\* entries of the folder, as paths, in listing order
RECURSIVE GlobFolder(_, _, _, _)
GlobFolder(r, region, folder, l) ==
    IF l = <<>> THEN <<>>
    ELSE (IF (IF folder = "train" THEN MatchTrain(Head(l))
              ELSE MatchTest(Head(l)))
          THEN <<Path(r, region, folder, Head(l))>> ELSE <<>>)
         \o GlobFolder(r, region, folder, Tail(l))

\* f.endswith("_segmentation.nii.gz")
SegSuffix == <<"_", "segmentation", ".nii.gz">>
\* "_segmentation" in f
ContainsSegmentation(f) ==
    \E i \in 1..(Len(f) - 1) : f[i] = "_" /\ f[i + 1] = "segmentation"
EndsWithSegmentation(f) ==
    /\ Len(f) >= Len(SegSuffix)
    /\ SubSeq(f, Len(f) - Len(SegSuffix) + 1, Len(f)) = SegSuffix

\* assert body_region in ["brain", "abdom"]
AssertRegion(region) == region \in Regions

InitG ==
    /\ fn \in {"get_train_files", "get_test_files"}
    /\ root \in Roots
    /\ body_region \in Regions \cup {"other"}
    /\ listing \in Listings
    /\ gpc = "new" /\ gexc = "none" /\ globCalls = 0 /\ all_files = <<>>
    /\ gi = 0 /\ gfiles = <<>>
    /\ IdleD /\ IdleN

\* get_train_files(root, body_region), whole
GetTrainFiles ==
    /\ gpc = "new" /\ fn = "get_train_files"
    /\ IF ~AssertRegion(body_region)
       THEN /\ gpc' = "raised" /\ gexc' = "AssertionError"
            /\ UNCHANGED <<globCalls, gfiles>>
       ELSE /\ gfiles' = GlobFolder(root, body_region, "train", listing)
            /\ globCalls' = globCalls + 1
            /\ gpc' = "returned" /\ gexc' = "none"
    /\ UNCHANGED <<fn, root, body_region, listing, all_files, gi>>
    /\ UNCHANGED <<dvars, nvars>>

\* get_test_files: the assertion, the glob, files = []
GetTestFilesStart ==
    /\ gpc = "new" /\ fn = "get_test_files"
    /\ IF ~AssertRegion(body_region)
       THEN /\ gpc' = "raised" /\ gexc' = "AssertionError"
            /\ UNCHANGED <<globCalls, all_files>>
       ELSE /\ all_files' = GlobFolder(root, body_region, "test", listing)
            /\ globCalls' = globCalls + 1
            /\ gpc' = "loop" /\ gexc' = "none"
    /\ UNCHANGED <<fn, root, body_region, listing, gi, gfiles>>
    /\ UNCHANGED <<dvars, nvars>>

\* get_test_files: one iteration of  for f in all_files
GetTestFilesLoop ==
    /\ gpc = "loop" /\ gi < Len(all_files)
    /\ gfiles' = IF ~EndsWithSegmentation(all_files[gi + 1])
                 THEN Append(gfiles, all_files[gi + 1]) ELSE gfiles
    /\ gi' = gi + 1
    /\ UNCHANGED <<fn, root, body_region, listing, gpc, gexc, globCalls,
                   all_files>>
    /\ UNCHANGED <<dvars, nvars>>

\* get_test_files: return files
GetTestFilesReturn ==
    /\ gpc = "loop" /\ gi = Len(all_files)
    /\ gpc' = "returned"
    /\ UNCHANGED <<fn, root, body_region, listing, gexc, globCalls, all_files,
                   gi, gfiles>>
    /\ UNCHANGED <<dvars, nvars>>

NextG ==
    \/ GetTrainFiles
    \/ GetTestFilesStart
    \/ GetTestFilesLoop
    \/ GetTestFilesReturn

----------------------------------------------------------------------------
(* WideResNetAE: construction and the shapes of forward *)

InpSizes == {0, 8, 16, 64, 128, 192, 256, 512, 1024, 536870912}

\* exponents e below 31 for which the float math.log(2 ** e, 2) is not e
\* (math.log(2 ** 29, 2) = 29.000000000000004)
InexactLogExponents == {29}

\* int(log(inp_size, 2)) - log(inp_size, 2) == 0, for 0 < n < 2^31: the
\* float quotient log(n)/log(2) is integral exactly for the powers of two
\* whose exponent is not in InexactLogExponents
IsPowerOfTwo(n) ==
    \E e \in 0..30 : e \notin InexactLogExponents /\ n = 2 ^ e

\* channels = [16, 16 * w, 32 * w, 64 * w, 64 * w, 64 * w, 64 * w], 0-based
channels(w, i) ==
    CASE i = 0 -> 16
      [] i = 1 -> 16 * w
      [] i = 2 -> 32 * w
      [] OTHER -> 64 * w

\* the module constructors: only what decides shapes is kept
conv2d(in_channels, out_channels, kernel_size, stride) ==
    [kind |-> "conv2d", in |-> in_channels, out |-> out_channels,
     kernel |-> kernel_size, stride |-> stride, pad |-> kernel_size \div 2]
BasicBlock(in_channels, out_channels, stride) ==
    [kind |-> "BasicBlock", in |-> in_channels, out |-> out_channels,
     stride |-> stride]
UpsampleBlock(in_channels, out_channels, stride) ==
    [kind |-> "UpsampleBlock", in |-> in_channels, out |-> out_channels,
     stride |-> stride]

conv_group(in_channels, out_channels, n, stride) ==
    [kind |-> "conv_group", in |-> in_channels, out |-> out_channels,
     stride |-> stride,
     blocks |-> <<BasicBlock(in_channels, out_channels, stride)>>
                \o [i \in 1..(n - 1) |->
                       BasicBlock(out_channels, out_channels, 1)]]
upsample_group(in_channels, out_channels, n, stride) ==
    [kind |-> "upsample_group", in |-> in_channels, out |-> out_channels,
     stride |-> stride,
     blocks |-> <<UpsampleBlock(in_channels, out_channels, stride)>>
                \o [i \in 1..(n - 1) |->
                       UpsampleBlock(out_channels, out_channels, 1)]]

\* self.enc
Encoder(size, w) ==
    <<[kind |-> "conv", in |-> 1, out |-> channels(w, 0), stride |-> 1,
       blocks |-> <<conv2d(1, channels(w, 0), 3, 1)>>],
      conv_group(channels(w, 0), channels(w, 1), 1, 1),
      conv_group(channels(w, 1), channels(w, 2), 1, 2),
      conv_group(channels(w, 2), channels(w, 3), 1, 2),
      conv_group(channels(w, 3), channels(w, 4), 1, 2)>>
    \o (IF size > 128
        THEN <<conv_group(channels(w, 4), channels(w, 5), 1, 2)>> ELSE <<>>)
    \o (IF size > 256
        THEN <<conv_group(channels(w, 5), channels(w, 6), 1, 2)>> ELSE <<>>)

\* a decoder that treats every size above 128 alike
DecoderTwoBranches(size, w) ==
    (IF size > 128
     THEN <<upsample_group(channels(w, 5), channels(w, 2), 1, 2),
            upsample_group(channels(w, 2), channels(w, 1), 1, 2)>>
     ELSE <<upsample_group(channels(w, 4), channels(w, 1), 1, 2)>>)
    \o <<upsample_group(channels(w, 1), channels(w, 0), 1, 2),
         upsample_group(channels(w, 0), 1, 1, 2)>>

\* self.dec
Decoder(size, w) ==
    (IF size > 256
     THEN <<upsample_group(channels(w, 6), channels(w, 2), 1, 2),
            upsample_group(channels(w, 2), channels(w, 2), 1, 2),
            upsample_group(channels(w, 2), channels(w, 1), 1, 2)>>
     ELSE IF size > 128
     THEN <<upsample_group(channels(w, 5), channels(w, 2), 1, 2),
            upsample_group(channels(w, 2), channels(w, 1), 1, 2)>>
     ELSE <<upsample_group(channels(w, 4), channels(w, 1), 1, 2)>>)
    \o <<upsample_group(channels(w, 1), channels(w, 0), 1, 2),
         upsample_group(channels(w, 0), 1, 1, 2)>>

\* shapes are <<b, c, h, w>>; an operator that raises yields the one-element
\* tuple naming the exception, and every later operator passes it on
RuntimeError == <<"RuntimeError">>
ValueError == <<"ValueError">>
AttributeError == <<"AttributeError">>
IsError(t) == Len(t) = 1

\* nn.Conv2d on a shape
ConvOut(h, k, stride, pad) == (h + 2 * pad - k) \div stride + 1
Conv2dForward(l, t) ==
    IF IsError(t) THEN t
    ELSE IF t[2] # l.in \/ t[3] + 2 * l.pad < l.kernel
                        \/ t[4] + 2 * l.pad < l.kernel
    THEN RuntimeError
    ELSE <<t[1], l.out, ConvOut(t[3], l.kernel, l.stride, l.pad),
           ConvOut(t[4], l.kernel, l.stride, l.pad)>>

\* nn.BatchNorm2d(c) on a shape, the module being in training mode (as it is
\* after construction): one value per channel is refused before the
\* channel count is checked
BatchNormForward(c, t) ==
    IF IsError(t) THEN t
    ELSE IF t[1] * t[3] * t[4] = 1 THEN ValueError
    ELSE IF t[2] # c THEN RuntimeError
    ELSE t

\* nn.AvgPool2d(stride, stride) on a shape
AvgPoolForward(k, t) ==
    IF IsError(t) THEN t
    ELSE IF t[3] < k \/ t[4] < k THEN RuntimeError
    ELSE <<t[1], t[2], (t[3] - k) \div k + 1, (t[4] - k) \div k + 1>>

\* F.interpolate(inp, scale_factor=...) on a shape
Upsample(t, scale_factor) ==
    IF IsError(t) THEN t
    ELSE <<t[1], t[2], t[3] * scale_factor, t[4] * scale_factor>>

\* y + shortcut, with broadcasting; the main path is computed first, so its
\* exception is the one raised
Max2(a, b) == IF a > b THEN a ELSE b
AddShapes(a, b) ==
    IF IsError(a) THEN a
    ELSE IF IsError(b) THEN b
    ELSE IF \A i \in 1..4 : a[i] = b[i] \/ a[i] = 1 \/ b[i] = 1
    THEN [i \in 1..4 |-> Max2(a[i], b[i])]
    ELSE RuntimeError

\* BasicBlock.forward
BasicBlockForward(l, t) ==
    LET y1 == Conv2dForward(conv2d(l.in, l.out, 3, l.stride),
                            BatchNormForward(l.in, t))
        y == Conv2dForward(conv2d(l.out, l.out, 3, 1),
                           BatchNormForward(l.out, y1))
        shortcut ==
            IF l.in = l.out /\ l.stride = 1 THEN t
            ELSE IF l.in = l.out /\ l.stride = 2
            THEN AvgPoolForward(l.stride, t)
            ELSE IF l.in # l.out
            THEN Conv2dForward(conv2d(l.in, l.out, 1, l.stride), t)
            ELSE AttributeError  \* no shortcut_conv attribute
    IN AddShapes(y, shortcut)

\* UpsampleBlock.forward
UpsampleBlockForward(l, t) ==
    LET y1 == Conv2dForward(conv2d(l.in, l.out, 3, 1),
                            BatchNormForward(l.in, t))
        y2 == Upsample(y1, l.stride)
        y == Conv2dForward(conv2d(l.out, l.out, 3, 1),
                           BatchNormForward(l.out, y2))
        shortcut ==
            IF l.in = l.out /\ l.stride = 1 THEN t
            ELSE IF l.in = l.out /\ l.stride = 2 THEN Upsample(t, l.stride)
            ELSE IF l.in # l.out
            THEN Upsample(Conv2dForward(conv2d(l.in, l.out, 1, 1), t),
                          l.stride)
            ELSE AttributeError  \* no shortcut_conv attribute
    IN AddShapes(y, shortcut)

BlockForward(l, t) ==
    CASE l.kind = "conv2d" -> Conv2dForward(l, t)
      [] l.kind = "BasicBlock" -> BasicBlockForward(l, t)
      [] l.kind = "UpsampleBlock" -> UpsampleBlockForward(l, t)

\* nn.Sequential.forward of a group
RECURSIVE SequentialForward(_, _)
SequentialForward(blocks, t) ==
    IF blocks = <<>> THEN t
    ELSE SequentialForward(Tail(blocks), BlockForward(Head(blocks), t))

InitN ==
    /\ inp_size \in InpSizes
    /\ widen_factor \in 1..MaxWiden
    /\ batch \in 1..MaxBatch
    /\ npc = "new" /\ net = <<>> /\ li = 0 /\ x = <<>> /\ nexc = "none"
    /\ IdleD /\ IdleG

\* WideResNetAE.__init__
NetInit ==
    /\ npc = "new"
    /\ IF inp_size <= 0
       THEN \* math.log: math domain error
            /\ npc' = "raised" /\ nexc' = "ValueError"
            /\ UNCHANGED net
       ELSE IF ~IsPowerOfTwo(inp_size)
       THEN /\ npc' = "raised" /\ nexc' = "AssertionError"
            /\ UNCHANGED net
       ELSE /\ net' = [enc |-> Encoder(inp_size, widen_factor),
                       dec |-> Decoder(inp_size, widen_factor)]
            /\ npc' = "built" /\ nexc' = "none"
    /\ UNCHANGED <<inp_size, widen_factor, batch, li, x>>
    /\ UNCHANGED <<dvars, gvars>>

\* forward is called on an input of shape [b, 1, inp_size, inp_size]
ForwardCall ==
    /\ npc = "built"
    /\ x' = <<batch, 1, inp_size, inp_size>>
    /\ li' = 0
    /\ npc' = "forward"
    /\ UNCHANGED <<inp_size, widen_factor, batch, net, nexc>>
    /\ UNCHANGED <<dvars, gvars>>

\* forward: the next group of self.enc, then of self.dec
ForwardGroup ==
    /\ npc = "forward"
    /\ li < Len(net.enc \o net.dec)
    /\ LET y == SequentialForward((net.enc \o net.dec)[li + 1].blocks, x)
       IN IF IsError(y)
          THEN /\ npc' = "raised" /\ nexc' = y[1]
               /\ UNCHANGED <<x, li>>
          ELSE /\ x' = y /\ li' = li + 1
               /\ UNCHANGED <<npc, nexc>>
    /\ UNCHANGED <<inp_size, widen_factor, batch, net>>
    /\ UNCHANGED <<dvars, gvars>>

\* forward: y = torch.sigmoid(y); return y
ForwardReturn ==
    /\ npc = "forward"
    /\ li = Len(net.enc \o net.dec)
    /\ npc' = "done"
    /\ UNCHANGED <<inp_size, widen_factor, batch, net, li, x, nexc>>
    /\ UNCHANGED <<dvars, gvars>>

NextN ==
    \/ NetInit
    \/ ForwardCall
    \/ ForwardGroup
    \/ ForwardReturn

----------------------------------------------------------------------------
Init == InitD \/ InitG \/ InitN
Next == NextD \/ NextG \/ NextN
Spec == Init /\ [][Next]_vars

----------------------------------------------------------------------------
(* Helpers of the properties *)

\* load_to_ram has returned to the constructor
Loaded == pc = "ready" \/ (pc = "raised" /\ exc = "IndexError")

Count(seq, e) == Cardinality({i \in DOMAIN seq : seq[i] = e})

RECURSIVE SumDepth(_)
SumDepth(fs) == IF fs = <<>> THEN 0 ELSE disk[Head(fs)] + SumDepth(Tail(fs))

\* position of a path in the constructor's list (paths are distinct)
FileIndex(f) == CHOOSE i \in DOMAIN files : files[i] = f

\* the path with only its test folder (the directory component named
\* "test" that holds the file) replaced by test_label/pixel
FolderIndex(f) ==
    CHOOSE i \in 2..(Len(f) - 1) :
        /\ f[i] = "test" /\ f[i - 1] = "/" /\ f[i + 1] = "/"
        /\ \A j \in (i + 2)..Len(f) : f[j] # "/"
ExpectedSegPath(f) ==
    SubSeq(f, 1, FolderIndex(f) - 1) \o <<"test_label", "/", "pixel">>
    \o SubSeq(f, FolderIndex(f) + 1, Len(f))

----------------------------------------------------------------------------
(* Properties *)

\* C1: whenever PatchSwapDataset.__getitem__(idx) has run for an idx in
\* 0..len-1 and any draw of other_scan, it raised nothing and its partner
\* index other_idx has the slice index of idx (other_idx % n_slices =
\* idx % n_slices) and lies in 0..len(samples)-1.
C1_PartnerAtMatchingSlice ==
    ret.call = "PatchSwapDataset" =>
        /\ ret.exc = "none"
        /\ ret.other_idx % n_slices = ret.idx % n_slices
        /\ 0 <= ret.other_idx /\ ret.other_idx < Len(samples)

\* C2: after PatchSwapDataset construction samples[s * n_slices + k] is slice
\* k of the s-th input file for every scan s and slice k, n_scans is the
\* number of input files, and len(samples) = n_scans * n_slices.
C2_SliceToScanMapping ==
    (pc = "ready" /\ cls = "PatchSwapDataset") =>
        /\ n_scans = Len(files)
        /\ Len(samples) = n_scans * n_slices
        /\ \A s \in 0..(n_scans - 1) : \A k \in 0..(n_slices - 1) :
              /\ s * n_slices + k + 1 \in DOMAIN samples
              /\ samples[s * n_slices + k + 1].file = files[s + 1]
              /\ samples[s * n_slices + k + 1].slice = k

\* C3: once the pool is started no batch is empty, every path is in exactly
\* one batch and the batches concatenate to the input list; once
\* load_to_ram has returned, res holds one result per batch, the i-th being
\* load_batch of the i-th batch, whatever order the workers finished in.
C3_BatchPartition ==
    /\ poolStarted =>
          /\ \A i \in DOMAIN batches : batches[i] # <<>>
          /\ \A f \in Range(files) :
                Cardinality({i \in DOMAIN batches : f \in Range(batches[i])}) = 1
          /\ Flatten(batches) = files
    /\ Loaded =>
          /\ Len(res) = Len(batches)
          /\ \A i \in DOMAIN batches : res[i] = load_batch(cls, batches[i])
C3_Witness ==
    /\ Loaded
    /\ Len(batches) >= 2
    /\ Len(batches[1]) > Len(batches[2])
    /\ finished[1] # 1
    /\ disk[batches[1][1]] # disk[batches[2][1]]

\* C4: for inp_size 128, 256 and 512 and every widen_factor, every group's
\* in_channels is the previous group's out_channels, the encoder has as many
\* stride-2 groups as the decoder, forward raises nothing, and forward on
\* [b, 1, inp_size, inp_size] returns a tensor of that same shape.
C4_AutoencoderShapes ==
    (inp_size \in {128, 256, 512} /\ npc # "new") =>
        /\ npc # "raised"
        /\ \A i \in 1..(Len(net.enc \o net.dec) - 1) :
              (net.enc \o net.dec)[i + 1].in = (net.enc \o net.dec)[i].out
        /\ Cardinality({i \in DOMAIN net.enc : net.enc[i].stride = 2})
              = Cardinality({i \in DOMAIN net.dec : net.dec[i].stride = 2})
        /\ npc = "done" => x = <<batch, 1, inp_size, inp_size>>
C4_Witness ==
    /\ npc = "done" /\ inp_size = 512 /\ widen_factor > 1 /\ batch > 1
    /\ x = <<batch, 1, 512, 512>>

\* C5: an invalid region argument ends the call with AssertionError before
\* any work: PatchSwapDataset starts no pool, reads no file and sets no
\* attribute; get_train_files and get_test_files perform no glob.
C5_InvalidRegionRejected ==
    /\ (cls = "PatchSwapDataset" /\ data \notin Regions /\ pc # "new") =>
          /\ pc = "raised" /\ exc = "AssertionError"
          /\ ~poolStarted /\ filesRead = {} /\ attrs = {}
          /\ batches = <<>> /\ res = <<>>
    /\ (fn # "none" /\ body_region \notin Regions /\ gpc # "new") =>
          /\ gpc = "raised" /\ gexc = "AssertionError"
          /\ globCalls = 0 /\ all_files = <<>> /\ gfiles = <<>>
C5_Witness ==
    /\ cls = "PatchSwapDataset" /\ data \notin Regions
    /\ pc = "raised" /\ exc = "AssertionError"
    /\ Len(files) >= 2 /\ num_cpus >= 2

\* C6: after TestDataset construction samples and segmentations both have
\* one entry per input file, the i-th sample is (f, scan) for the i-th
\* input file f and the i-th segmentation is (f_seg, seg) where f_seg is f
\* with only its test folder replaced by test_label/pixel; __getitem__(i)
\* returns that pair.
C6_SegmentationPairing ==
    /\ (pc = "ready" /\ cls = "TestDataset") =>
          /\ Len(samples) = Len(files)
          /\ Len(segmentations) = Len(files)
          /\ \A i \in DOMAIN files :
                /\ samples[i][1] = files[i]
                /\ segmentations[i][1] = ExpectedSegPath(files[i])
    /\ ret.call = "TestDataset" =>
          /\ ret.value[1][1] = files[ret.idx + 1]
          /\ ret.value[2][1] = ExpectedSegPath(files[ret.idx + 1])

\* C7: get_test_files returns exactly the entries of <root>/<region>/test
\* that match ?????_*.nii.gz and do not end with _segmentation.nii.gz, each
\* once, in the order of the glob.
C7_TestFilesFiltered ==
    (fn = "get_test_files" /\ gpc = "returned") =>
        /\ \A n \in Range(listing) :
              Count(gfiles, Path(root, body_region, "test", n)) =
                 (IF /\ MatchTest(n)
                     /\ ~(n[Len(n) - 1] = "segmentation" /\ n[Len(n) - 2] = "_")
                  THEN 1 ELSE 0)
        /\ \A i \in DOMAIN gfiles : Count(all_files, gfiles[i]) = 1
        /\ \A i, j \in DOMAIN gfiles :
              i < j =>
                 \E a, b \in DOMAIN all_files :
                    a < b /\ all_files[a] = gfiles[i] /\ all_files[b] = gfiles[j]
C7_Witness ==
    /\ fn = "get_test_files" /\ gpc = "returned"
    /\ Len(gfiles) >= 2
    /\ \E i \in DOMAIN gfiles : ContainsSegmentation(gfiles[i])
    /\ \E i \in DOMAIN all_files : EndsWithSegmentation(all_files[i])

\* C8: whenever PatchSwapDataset.__getitem__(idx) returns, the partner slice
\* comes from another scan: other_idx differs from idx.
C8_PartnerFromOtherScan ==
    (ret.call = "PatchSwapDataset" /\ ret.exc = "none") =>
        ret.other_idx # ret.idx

\* TrainDataset: the flat list and what __getitem__ returns
C9_Flattened ==
    /\ (pc = "ready" /\ cls = "TrainDataset") =>
          /\ Len(samples) = SumDepth(files)
          /\ \A f \in Range(files) :
                Cardinality({i \in DOMAIN samples : samples[i].file = f})
                   = disk[f]
          /\ \A i, j \in DOMAIN samples :
                i < j =>
                   \/ FileIndex(samples[i].file) < FileIndex(samples[j].file)
                   \/ /\ samples[i].file = samples[j].file
                      /\ samples[i].slice < samples[j].slice
    /\ ret.call = "TrainDataset" =>
          /\ ret.exc = "none"
          /\ ret.value.file = samples[ret.idx + 1].file
          /\ ret.value.slice = samples[ret.idx + 1].slice
          /\ ret.value.shape = <<1>> \o samples[ret.idx + 1].shape
\* TrainDataset: a step of a constructed dataset keeps samples
C9_SamplesKept ==
    (pc = "ready" /\ cls = "TrainDataset") => samples' = samples
\* C9: after TrainDataset construction len(samples) is the sum of the slice
\* counts of the input files and the slices are in input file order, then
\* slice order; __getitem__(idx) returns slice idx with a leading dimension
\* of size 1; and no __getitem__ changes samples.
C9_TrainFlatten == [](C9_Flattened) /\ [][C9_SamplesKept]_vars
C9_Witness ==
    /\ cls = "TrainDataset" /\ ret.call = "TrainDataset"
    /\ Len(batches) >= 2
    /\ ret.idx = Len(samples) - 1
    /\ disk[files[1]] > disk[files[2]] /\ disk[files[2]] > 0

====
